---- MODULE Spec2Model ----
(***************************************************************************)
(* The download engine of Scripts/kxdw/kxdw_downloader.py                  *)
(* (class KXDWDownloader): process_game, _download_with_chrome,            *)
(* _download_file, _cleanup_folder_on_failure and _get_next_proxy, as a    *)
(* state machine.  The origin server, the browser and the operator who     *)
(* interrupts the program are the environment.                             *)
(*                                                                         *)
(* Sizes are byte counts.  A file is a list of segments; a segment         *)
(* [o, k, lo, hi] stands for the bytes lo..hi-1 of the body the origin     *)
(* serves for task o, whose first two bytes are k ("PK" a real package,    *)
(* "HT" an HTML page).  A run of iter_content chunks up to the next offset *)
(* of CutPoints is one step of the model: faults and interrupts happen at  *)
(* these offsets.                                                          *)
(***************************************************************************)
EXTENDS Integers, Sequences, FiniteSets, TLC

\* ------------------------------------------------------------- bounds
MaxRuns == 2
MaxProxies == 2
MaxPoolCalls == 6
MaxCallers == 2
MaxMonTime == 150
ShortHorizon == 36
LongHorizon == 7200
BeginHorizon == 32
AfterBegin == 8

\* ------------------------------------------------- program constants
KiB == 1024
MiB == 1048576
max_retries == 5
BackoffCap == 32
BeginPolls == 60
chunk_size == 16384

\* the tasks of the manifest, named by the kind of their download link: an
\* api.kxdw.com/adown/ link, or a link that points at the file itself.  A URL is
\* a task's link or the real address the browser resolved for an adown task.
Tasks == {"adown", "direct"}
IsAdownUrl(t) == t = "adown"
RealUrl(t) == "real_" \o t
UrlOwner(u) == IF u = RealUrl("adown") THEN "adown" ELSE u

ArtSizes == {50 * KiB, 3 * MiB}
CutPoints(size) == IF size <= MiB THEN {49 * KiB} ELSE {MiB, 2 * MiB}

None == "None"
Direct == 0

Min(a, b) == IF a < b THEN a ELSE b
Max(a, b) == IF a > b THEN a ELSE b

\* ------------------------------------------------------------- files
NoFile == [exists |-> FALSE, segs |-> <<>>]
EmptyFile == [exists |-> TRUE, segs |-> <<>>]
Seg(o, k, lo, hi) == [o |-> o, k |-> k, lo |-> lo, hi |-> hi]

RECURSIVE SegsSize(_)
SegsSize(s) == IF s = <<>> THEN 0
               ELSE (Head(s).hi - Head(s).lo) + SegsSize(Tail(s))

st_size(f) == SegsSize(f.segs)

\* f.write(chunk): the bytes lo..hi-1 of the body go behind what the file holds
WriteBytes(f, s) ==
    IF s.hi <= s.lo THEN [f EXCEPT !.exists = TRUE]
    ELSE IF f.segs # <<>>
            /\ f.segs[Len(f.segs)].o = s.o
            /\ f.segs[Len(f.segs)].k = s.k
            /\ f.segs[Len(f.segs)].hi = s.lo
         THEN [exists |-> TRUE,
               segs |-> [f.segs EXCEPT ![Len(f.segs)].hi = s.hi]]
         ELSE [exists |-> TRUE, segs |-> Append(f.segs, s)]

\* f.read(4)[:2]
FileHeader(f) == IF f.segs = <<>> THEN ""
                 ELSE IF Head(f.segs).lo = 0 THEN Head(f.segs).k ELSE "??"

WholeBody(o, k, n) == [exists |-> TRUE, segs |-> <<Seg(o, k, 0, n)>>]

\* ----------------------------------------------------------- folders
NoFolder == [exists |-> FALSE, apk |-> NoFile, zip |-> 0, info |-> FALSE,
             crd |-> NoFile, capk |-> NoFile]
EmptyFolder == [NoFolder EXCEPT !.exists = TRUE]

HasFiles(d) == d.apk.exists \/ d.zip > 0 \/ d.info \/ d.crd.exists \/ d.capk.exists

LargestSize(d) ==
    Max(Max(IF d.apk.exists THEN st_size(d.apk) ELSE 0, d.zip),
        Max(IF d.crd.exists THEN st_size(d.crd) ELSE 0,
            IF d.capk.exists THEN st_size(d.capk) ELSE 0))

VARIABLES games, disk, proxies, gp, mon, cw, default_download_dir,
          current_proxy_index, last_real_download_url, use_chrome, cd, pc, task, caller,
          runs, result, srv, expected_size, df, obs

vars == <<games, disk, proxies, gp, mon, cw, default_download_dir,
          current_proxy_index, last_real_download_url, use_chrome, cd, pc, task, caller,
          runs, result, srv, expected_size, df, obs>>

NoResponse == [open |-> FALSE, pos |-> 0, end |-> 0, o |-> None, k |-> ""]

\* the locals of _download_file when no call is active
DfIdle == [url |-> None, use_proxy |-> None, has_real_url |-> FALSE,
           use_proxy_for_download |-> FALSE, proxy |-> Direct, total_size |-> 0,
           supports_range |-> FALSE, resume_pos |-> 0, downloaded |-> 0,
           retry_count |-> 0, response |-> NoResponse, mode |-> "", depth |-> 0]

\* the locals of _download_with_chrome and the browser's download: guid is
\* download_guid being set, br the phase of the browser's download, fresh the
\* name under which the browser left its finished file during this call
CdIdle == [guid |-> FALSE, br |-> "none", fresh |-> "none"]

\* the file a transfer had written when its first fault came
NoPartial == [size |-> 0, hdr |-> "", resumable |-> FALSE]

\* what one run of process_game did (history, reset when the next run starts)
ObsIdle == [waits |-> <<>>, loop_gets |-> 0, http_calls |-> 0, chrome_calls |-> 0,
            chrome_result |-> "none", polls |-> 0,
            written |-> FALSE, routes |-> {}, sentinel |-> FALSE, faults |-> 0,
            fatal |-> FALSE, interrupted |-> FALSE, refresh |-> "none",
            deleted |-> {}, ranges |-> {}, partial |-> NoPartial]

\* Path.home() / 'Downloads', the directory the browser downloads to when no
\* download path was set for a session: whether it holds a .crdownload marker and
\* a fresh .apk, both written by the browser of another session
OtherSession == "other"
NoDownloads == [crd |-> FALSE, apk |-> FALSE]

\* the callers of _get_next_proxy on one downloader: n callers, the index the pool
\* had when they began, each caller's position in the method (pc), its local
\* `proxy` and the index it read at line 471, and the entries returned so far
Callers == 1..MaxCallers
GpIdle == [n |-> 1, start |-> 0, pc |-> [c \in Callers |-> "out"],
           proxy |-> [c \in Callers |-> 0], idx |-> [c \in Callers |-> 0],
           ret |-> <<>>, calls |-> 0]

\* the locals of the chunk loop of _download_file that its speed check uses
\* (2672-2685), with the clock (now, in seconds) and whether a chunk has arrived at
\* this instant; initial_speed is the pair <<MiB, seconds>> of the window it was
\* taken from, <<0, 0>> standing for None
NoSpeed == <<0, 0>>
MonIdle == [state |-> "off", now |-> 0, arrived |-> FALSE, total_size |-> 0,
            supports_range |-> FALSE, downloaded |-> 0, last_check_time |-> 0,
            last_downloaded |-> 0, initial_speed |-> NoSpeed,
            consecutive_slow_checks |-> 0, last_connection_time |-> 0]

\* the locals of the waiting loop of _download_with_chrome (1582-1584, 1659-1661,
\* 1831-1848) and of on_download_progress, with the clock (now, seconds since the
\* loop was entered) and the browser's files in the task's folder: marker, the
\* .crdownload file, holding `size` halves of the body, and apk, the renamed file.
\* pct100 is last_progress_percent >= 99.9, t100 the attribute _100_percent_time
\* (-1: not set).  History: by is the rule that set download_completed, ev the
\* last event handled, seen and unchanged the size found at the last poll and
\* the number of consecutive polls that found it unchanged.
NoEvent == [state |-> "none", marker |-> FALSE, recheck |-> FALSE, pct_rule |-> FALSE]
CwIdle == [state |-> "off", horizon |-> 0, now |-> 0, expected_size_mb |-> 0,
           marker |-> FALSE, size |-> 0, apk |-> FALSE,
           wait_count |-> 0, max_wait_time |-> 0, download_completed |-> FALSE,
           progress_event_available |-> FALSE, pct100 |-> FALSE,
           last_progress_check_time |-> 0, t100 |-> -1, last_progress_time |-> 0,
           last_check_time |-> 0, last_file_size |-> 0, stable_size_count |-> 0,
           by |-> "none", ev |-> NoEvent, seen |-> 0, unchanged |-> 0,
           download_guid |-> FALSE, begin_count |-> 0]

ProxyLists == {<<>>} \cup UNION {[1..n -> {"proxy"}] : n \in 1..MaxProxies}

Init ==
    /\ games = [t \in Tasks |-> [downloaded |-> FALSE, size |-> 0, exp |-> 0]]
    /\ disk = [t \in Tasks |-> NoFolder]
    /\ proxies \in ProxyLists
    /\ current_proxy_index = 0
    /\ last_real_download_url = None
    /\ use_chrome \in BOOLEAN
    /\ pc = "idle"
    /\ task = None
    /\ caller = "process_game"
    /\ runs = 0
    /\ result = "none"
    /\ srv = [k |-> "PK", size |-> 0]
    /\ expected_size = 0
    /\ df = DfIdle
    /\ cd = CdIdle
    /\ obs = ObsIdle
    /\ gp = GpIdle
    /\ mon = MonIdle
    /\ cw = CwIdle
    /\ default_download_dir = NoDownloads

\* ------------------------------------------------------ _get_next_proxy
\* the route handed out (Direct when no proxy is configured; index i+1 of the
\* list otherwise) and the index afterwards
NextProxy(ps, idx) == IF Len(ps) = 0 THEN Direct ELSE idx + 1
\* an index that runs on past the end of the list
NextProxyIndexNoWrap(ps, idx) == IF Len(ps) = 0 THEN idx ELSE idx + 1

NextProxyIndex(ps, idx) == IF Len(ps) = 0 THEN idx ELSE (idx + 1) % Len(ps)

\* 465-472 statement by statement, for caller c.  467-470: with no proxy the call
\* returns None; otherwise the entry at the index is read into `proxy`.
GetNextProxyEnter(c) ==
    /\ gp.pc[c] = "out" /\ c <= gp.n /\ gp.calls < MaxPoolCalls
    /\ IF Len(proxies) = 0
       THEN gp' = [gp EXCEPT !.calls = @ + 1, !.ret = Append(@, Direct)]
       ELSE gp' = [gp EXCEPT !.calls = @ + 1, !.pc[c] = "l471",
                             !.proxy[c] = NextProxy(proxies, current_proxy_index)]
    /\ UNCHANGED <<games, disk, proxies, mon, cw, default_download_dir, current_proxy_index,
                   last_real_download_url, use_chrome, cd, pc, task, caller, runs, result,
                   srv, expected_size, df, obs>>

\* 471, right-hand side: the index is read again and the next one computed
GetNextProxyCompute(c) ==
    /\ gp.pc[c] = "l471"
    /\ gp' = [gp EXCEPT !.pc[c] = "store",
                        !.idx[c] = NextProxyIndex(proxies, current_proxy_index)]
    /\ UNCHANGED <<games, disk, proxies, mon, cw, default_download_dir, current_proxy_index,
                   last_real_download_url, use_chrome, cd, pc, task, caller, runs, result,
                   srv, expected_size, df, obs>>

\* 471-472: the index is stored and `proxy` returned
GetNextProxyStore(c) ==
    /\ gp.pc[c] = "store"
    /\ current_proxy_index' = gp.idx[c]
    /\ gp' = [gp EXCEPT !.pc[c] = "out", !.ret = Append(@, gp.proxy[c])]
    /\ UNCHANGED <<games, disk, proxies, mon, cw, default_download_dir,
                   last_real_download_url, use_chrome, cd, pc, task, caller, runs, result,
                   srv, expected_size, df, obs>>

NextPool ==
    \E c \in Callers :
        \/ GetNextProxyEnter(c)
        \/ GetNextProxyCompute(c)
        \/ GetNextProxyStore(c)

\* a downloader with its pool loaded (279-307), the index where earlier calls
\* left it, and one caller or several
InitPool ==
    /\ games = [t \in Tasks |-> [downloaded |-> FALSE, size |-> 0, exp |-> 0]]
    /\ disk = [t \in Tasks |-> NoFolder]
    /\ proxies \in ProxyLists
    /\ current_proxy_index \in (IF Len(proxies) = 0 THEN {0} ELSE 0..(Len(proxies) - 1))
    /\ last_real_download_url = None
    /\ use_chrome = FALSE
    /\ pc = "idle"
    /\ task = None
    /\ caller = "pool"
    /\ runs = 0
    /\ result = "none"
    /\ srv = [k |-> "PK", size |-> 0]
    /\ expected_size = 0
    /\ df = DfIdle
    /\ cd = CdIdle
    /\ obs = ObsIdle
    /\ default_download_dir = NoDownloads
    /\ mon = MonIdle
    /\ cw = CwIdle
    /\ \E n \in Callers : gp = [GpIdle EXCEPT !.n = n, !.start = current_proxy_index]

SpecPool == InitPool /\ [][NextPool]_vars

\* ------------------------------------------ _cleanup_folder_on_failure
HasValidApk(d) == \/ d.apk.exists /\ FileHeader(d.apk) = "PK"
                  \/ d.capk.exists /\ FileHeader(d.capk) = "PK"

CleanupFolderOnFailure(d) ==
    IF ~d.exists THEN d
    ELSE IF ~HasFiles(d) THEN NoFolder
    ELSE IF HasValidApk(d) THEN d
    ELSE NoFolder

\* 3059-3082: each unlink, the rmdir and the rmtree are tried and their errors
\* printed.  A .crdownload marker the browser is still writing cannot be removed
\* where an open file cannot be (Windows): the other files go, the marker and the
\* folder stay.
CleanupFolderHeld(d) ==
    IF d.exists /\ HasFiles(d) /\ ~HasValidApk(d) /\ d.crd.exists
    THEN [EmptyFolder EXCEPT !.crd = d.crd]
    ELSE CleanupFolderOnFailure(d)

\* -------------------------------------------------- _create_zip_for_apk
\* the .zip beside the .apk; its size is taken to be that of the .apk
CreateZipForApk(d) == IF d.apk.exists THEN [d EXCEPT !.zip = st_size(d.apk)] ELSE d

\* ------------------------------------------------------- process_game
\* 3137-3182: a folder with files is taken as the finished download when its
\* largest file reaches 95% of the size the page states, or 1 MiB when the page
\* states none
ExistingLooksDownloaded(d, exp) ==
    /\ d.exists /\ HasFiles(d)
    /\ IF exp > 0 THEN LargestSize(d) * 100 >= exp * 95
                  ELSE LargestSize(d) > MiB

\* 3163-3172: otherwise, with a stated size, every .apk of the folder is deleted
DeleteOldApks(d, exp) ==
    IF d.exists /\ HasFiles(d) /\ exp > 0
    THEN [d EXCEPT !.apk = NoFile, !.capk = NoFile]
    ELSE d

\* 3369-3387, 3408-3419: the file at save_path is kept (and the download skipped)
\* or deleted
SavePathLooksDownloaded(f, exp) ==
    /\ f.exists
    /\ IF exp > 0 THEN st_size(f) * 100 >= exp * 95 ELSE st_size(f) > MiB

\* 3245, 3290-3296: process_game probes the link with a HEAD request through
\* _get_next_proxy unless the page stated a size and the link is an adown link
ProbesLink(t, exp) == exp = 0 \/ ~IsAdownUrl(t)

\* 3399-3402, 3462-3471 (and the direct caller of _download_file): what the caller
\* does with the strategy's return value; d is the task's folder at that moment
ReturnToCaller(ok, d, o2) ==
    \E held \in BOOLEAN :
    LET cleaned == IF held THEN CleanupFolderHeld(d) ELSE CleanupFolderOnFailure(d)
    IN
    /\ held => /\ caller = "process_game" /\ ~ok
               /\ cd.br = "writing" /\ CleanupFolderHeld(d) # CleanupFolderOnFailure(d)
    /\ pc' = "done"
    /\ df' = DfIdle
    /\ obs' = IF caller = "process_game" /\ ~ok /\ d.apk.exists /\ ~cleaned.apk.exists
              THEN [o2 EXCEPT !.deleted = @ \cup
                      {[size |-> st_size(d.apk), hdr |-> FileHeader(d.apk),
                        why |-> "cleanup"]}]
              ELSE o2
    /\ result' = IF ok THEN "ok" ELSE "fail"
    /\ IF caller = "process_game"
       THEN IF ok
            THEN /\ disk' = [disk EXCEPT ![task] = [d EXCEPT !.info = TRUE]]
                 /\ games' = [games EXCEPT ![task].downloaded = TRUE]
            ELSE /\ disk' = [disk EXCEPT ![task] = cleaned]
                 /\ games' = games
       ELSE /\ disk' = [disk EXCEPT ![task] = d]
            /\ games' = games

\* KeyboardInterrupt is not an Exception: no handler of _download_file,
\* _download_with_chrome or process_game catches it where it is raised outside a
\* bare `except:`; the with and finally clauses close the file and the response,
\* and run() (3543-3545) leaves its loop.  Nothing is deleted.
Interrupted(o2) ==
    /\ pc' = "done"
    /\ df' = DfIdle
    /\ result' = "interrupted"
    /\ obs' = [o2 EXCEPT !.interrupted = TRUE]
    /\ UNCHANGED <<games, disk>>

\* 3236, 3265: a package of more than 1 GiB (size_mb > 1024) is not downloaded;
\* HugeSize is the size of such a package, whose origin states its Content-Length
GiB == 1024 * MiB
HugeSize == GiB + MiB
Over1G(size) == size > GiB

\* what the origin can serve: the package of one of the artifact sizes, or an HTML
\* page
HtmlSize == 50 * KiB
Bodies == {[k |-> "PK", size |-> n] : n \in ArtSizes} \cup {[k |-> "HT", size |-> HtmlSize]}

\* 3098-3460.  The size of a task's package and whether its page states it are
\* fixed when the task is first looked at; kind is what the origin answers in this
\* run, head the outcome of process_game's own HEAD probe.
ProcessGameStart(t) ==
    /\ pc = "idle" /\ caller = "process_game" /\ runs < MaxRuns
    /\ runs' = runs + 1
    /\ task' = t
    /\ obs' = ObsIdle
    /\ UNCHANGED <<proxies, mon, cw, gp, default_download_dir, last_real_download_url,
                   use_chrome, cd, caller>>
    /\ IF games[t].downloaded
       THEN \* 3102-3106
            /\ result' = "ok"
            /\ pc' = "done"
            /\ UNCHANGED <<games, disk, current_proxy_index, srv, expected_size, df>>
       ELSE \E n \in (IF games[t].size = 0 THEN ArtSizes \cup {HugeSize}
                                            ELSE {games[t].size}) :
            \E exp \in (IF games[t].size = 0 THEN {0, n} ELSE {games[t].exp}),
               kind \in {"PK", "HT"}, head \in {"ok", "local"} :
            LET g1 == [games EXCEPT ![t].size = n, ![t].exp = exp]
                d0 == disk[t]
                d1 == DeleteOldApks(d0, exp)
                d2 == IF d1.exists THEN d1 ELSE EmptyFolder
                d3 == IF d2.apk.exists /\ ~SavePathLooksDownloaded(d2.apk, exp)
                      THEN [d2 EXCEPT !.apk = NoFile] ELSE d2
                probe == ProbesLink(t, exp)
                requests == ~ExistingLooksDownloaded(d0, exp)
                            /\ head = "ok" /\ ~Over1G(n)
                            /\ ~(d2.apk.exists /\ SavePathLooksDownloaded(d2.apk, exp))
            IN
            /\ head = "local" => probe /\ ~Over1G(exp)
            /\ ~requests => kind = "PK"
            /\ srv' = IF requests
                      THEN IF kind = "PK" THEN [k |-> "PK", size |-> n]
                                          ELSE [k |-> "HT", size |-> HtmlSize]
                      ELSE srv
            /\ expected_size' = exp
            /\ IF ExistingLooksDownloaded(d0, exp)
               THEN \* 3157-3162, 3175-3180
                    /\ head = "ok"
                    /\ games' = [g1 EXCEPT ![t].downloaded = TRUE]
                    /\ result' = "ok"
                    /\ pc' = "done"
                    /\ UNCHANGED <<disk, current_proxy_index, df>>
               ELSE IF Over1G(exp)
               THEN \* 3233-3242: the page states more than 1 GiB
                    /\ disk' = [disk EXCEPT ![t] = d1]
                    /\ games' = [g1 EXCEPT ![t].downloaded = TRUE]
                    /\ result' = "fail"
                    /\ pc' = "done"
                    /\ UNCHANGED <<current_proxy_index, df>>
               ELSE
                    /\ current_proxy_index' =
                          IF probe THEN NextProxyIndex(proxies, current_proxy_index)
                                   ELSE current_proxy_index
                    /\ IF head = "ok" /\ Over1G(n)
                       THEN \* 3261-3270: the probe's Content-Length is more than 1 GiB
                            /\ disk' = [disk EXCEPT ![t] = d1]
                            /\ games' = [g1 EXCEPT ![t].downloaded = TRUE]
                            /\ result' = "fail"
                            /\ pc' = "done"
                            /\ df' = df
                       ELSE IF head = "local"
                       THEN \* 3257-3259, 3307-3309
                            /\ disk' = [disk EXCEPT ![t] = d1]
                            /\ games' = g1
                            /\ result' = "fail"
                            /\ pc' = "done"
                            /\ df' = df
                       ELSE IF d2.apk.exists /\ SavePathLooksDownloaded(d2.apk, exp)
                       THEN \* 3378-3379, 3410-3411, 3462-3471
                            /\ disk' = [disk EXCEPT ![t] = [d2 EXCEPT !.info = TRUE]]
                            /\ games' = [g1 EXCEPT ![t].downloaded = TRUE]
                            /\ result' = "ok"
                            /\ pc' = "done"
                            /\ df' = df
                       ELSE \* 3388-3392, 3420-3424, 3441-3445, 3456-3457
                            /\ disk' = [disk EXCEPT ![t] = d3]
                            /\ games' = g1
                            /\ result' = "running"
                            /\ pc' = IF use_chrome THEN "chrome_resolve" ELSE "df_begin"
                            /\ df' = IF use_chrome THEN DfIdle
                                     ELSE [DfIdle EXCEPT !.url = t]

\* ------------------------------------------------------ _download_file
\* a backoff that starts at one second
WaitTimeFromOne(retry_count) == Min(2 ^ (retry_count - 1), BackoffCap)

\* 2827: the wait before the reconnect that follows the retry_count-th failure
WaitTime(retry_count) == Min(2 ^ retry_count, BackoffCap)

\* a response that ignores the offset asked for
ResponseFromStart(lo) == [open |-> TRUE, pos |-> 0, end |-> srv.size,
                          o |-> UrlOwner(df.url), k |-> srv.k]

\* a streamed response carrying the bytes lo..size-1 of the origin's body
Response(lo) == [open |-> TRUE, pos |-> lo, end |-> srv.size, o |-> UrlOwner(df.url),
                 k |-> srv.k]

Deleted(f, why) == IF f.exists
                   THEN {[size |-> st_size(f), hdr |-> FileHeader(f), why |-> why]}
                   ELSE {}

\* a handler that calls _download_file again whatever the call was
OuterExceptAlways(has_real_url, use_proxy_for_download, d, o2) ==
    /\ pc' = "df_begin"
    /\ df' = [DfIdle EXCEPT !.url = df.url, !.use_proxy = "True",
                            !.depth = df.depth + 1]
    /\ disk' = [disk EXCEPT ![task] = [d EXCEPT !.apk = NoFile]]
    /\ obs' = [o2 EXCEPT !.deleted = @ \cup Deleted(d.apk, "switch")]
    /\ UNCHANGED <<games, result>>

\* 2994-3017: the handler of every exception raised inside _download_file; it
\* deletes the file and calls _download_file again with use_proxy=True only for a
\* call that had the real address and was not going through the pool
OuterExcept(has_real_url, use_proxy_for_download, d, o2) ==
    IF has_real_url /\ ~use_proxy_for_download
    THEN /\ pc' = "df_begin"
         /\ df' = [DfIdle EXCEPT !.url = df.url, !.use_proxy = "True",
                                 !.depth = df.depth + 1]
         /\ disk' = [disk EXCEPT ![task] = [d EXCEPT !.apk = NoFile]]
         /\ obs' = [o2 EXCEPT !.deleted = @ \cup Deleted(d.apk, "switch")]
         /\ UNCHANGED <<games, result>>
    ELSE ReturnToCaller(FALSE, d, o2)

\* 2425-2685: the requests that precede the transfer loop
DownloadFileBegin ==
    /\ pc = "df_begin"
    /\ UNCHANGED <<proxies, mon, cw, gp, default_download_dir, last_real_download_url,
                   use_chrome, cd, task, caller, runs, srv, expected_size>>
    /\ \E outcome \in {"head_exc", "get_exc", "error", "ok"},
          cl \in {0, srv.size}, sr \in BOOLEAN :
       LET d == disk[task]
           has_real_url == df.use_proxy = "True"
           use_proxy_for_download ==
               IF df.use_proxy # None THEN df.use_proxy = "True" ELSE ~has_real_url
           proxy == IF use_proxy_for_download
                    THEN NextProxy(proxies, current_proxy_index) ELSE Direct
           idx1 == IF use_proxy_for_download
                   THEN NextProxyIndex(proxies, current_proxy_index)
                   ELSE current_proxy_index
           \* 2550-2571, 2584-2609: a call not going through the pool answers a failed
           \* GET or the sentinel by deleting the file and taking the next proxy
           switches == ~use_proxy_for_download /\ outcome \in {"get_exc", "error"}
           proxy2 == IF switches THEN NextProxy(proxies, idx1) ELSE proxy
           idx2 == IF switches THEN NextProxyIndex(proxies, idx1) ELSE idx1
           d2 == IF switches THEN [d EXCEPT !.apk = NoFile] ELSE d
           o1 == [obs EXCEPT !.http_calls = @ + 1]
           o2 == IF outcome = "head_exc" THEN o1
                 ELSE [o1 EXCEPT !.routes = @ \cup {proxy, proxy2},
                                 !.sentinel = @ \/ outcome = "error",
                                 !.deleted = @ \cup (IF switches
                                                     THEN Deleted(d.apk, "switch")
                                                     ELSE {})]
           total_size == cl
           resumes == d2.apk.exists /\ sr
           resume_pos == IF resumes THEN st_size(d2.apk) ELSE 0
           ranged == resumes /\ resume_pos > 0 /\ resume_pos < total_size
       IN
       /\ current_proxy_index' = IF outcome = "head_exc" THEN idx1 ELSE idx2
       /\ CASE outcome = "head_exc" ->
                 \* 2482: the first HEAD raises
                 OuterExcept(has_real_url, use_proxy_for_download, d, o2)
            [] outcome = "get_exc" ->
                 \* 2546-2573: the GET raises (after a switch: raises again)
                 OuterExcept(has_real_url, TRUE, d2, o2)
            [] outcome = "error" ->
                 \* 2579-2628: the body is the sentinel (after a switch: still is)
                 ReturnToCaller(FALSE, d2, o2)
            [] outcome = "ok" ->
                 /\ pc' = "df_loop"
                 /\ df' = [df EXCEPT !.has_real_url = has_real_url,
                                     !.use_proxy_for_download = use_proxy_for_download,
                                     !.proxy = proxy,
                                     !.total_size = total_size,
                                     !.supports_range = sr,
                                     !.resume_pos = resume_pos,
                                     !.downloaded = resume_pos,
                                     !.retry_count = 0,
                                     !.response = Response(IF ranged THEN resume_pos
                                                                     ELSE 0)]
                 /\ obs' = IF ranged
                           THEN [o2 EXCEPT !.ranges = @ \cup
                                   {[offset |-> resume_pos, fsize |-> st_size(d.apk)]}]
                           ELSE o2
                 /\ UNCHANGED <<games, disk, result>>

\* 2687-2691: the head of the retry loop opens the file, appending when
\* resume_pos > 0 and truncating otherwise
HttpOpen ==
    /\ pc = "df_loop"
    /\ df.retry_count < max_retries
    /\ LET mode == IF df.resume_pos > 0 THEN "ab" ELSE "wb"
           f == disk[task].apk
       IN /\ df' = [df EXCEPT !.mode = mode]
          /\ disk' = [disk EXCEPT ![task].apk =
                         IF mode = "ab" /\ f.exists THEN f ELSE EmptyFile]
    /\ pc' = "df_read"
    /\ UNCHANGED <<games, proxies, mon, cw, gp, default_download_dir, current_proxy_index,
                   last_real_download_url, use_chrome, cd, task, caller, runs, result, srv,
                   expected_size, obs>>

\* the offset at which the next step of the transfer ends
NextCut(pos, end) ==
    CHOOSE c \in (CutPoints(end) \cup {end}) :
        /\ c > pos /\ c <= end
        /\ \A e \in (CutPoints(end) \cup {end}) : (e > pos /\ e <= end) => c <= e

\* 2693-2802, 2914-2920: iter_content.  Chunks are written and counted until the
\* body ends or downloaded reaches total_size (tested after each chunk); a response
\* that was closed yields no chunk.  The loop then breaks and finally closes the
\* response inside `try: ... except: pass`; sigint is a KeyboardInterrupt raised
\* while that close runs, which the bare except discards.
HttpReadChunk ==
    /\ pc = "df_read"
    /\ \E sigint \in BOOLEAN :
       LET r == df.response
           f == disk[task].apk
           over == df.total_size > 0 /\ df.downloaded >= df.total_size
           stop == IF over THEN Min(r.pos + chunk_size, r.end) ELSE NextCut(r.pos, r.end)
           got == df.downloaded + (stop - r.pos)
           oi == [obs EXCEPT !.interrupted = @ \/ sigint]
       IN
       /\ sigint => (pc' = "df_validate" /\ caller = "process_game")
       /\ IF r.open /\ r.pos < r.end
          THEN /\ disk' = [disk EXCEPT ![task].apk =
                              WriteBytes(f, Seg(r.o, r.k, r.pos, stop))]
               /\ obs' = [oi EXCEPT !.written = TRUE]
               /\ IF df.total_size > 0 /\ got >= df.total_size
                  THEN /\ pc' = "df_validate"
                       /\ df' = [df EXCEPT !.downloaded = got, !.response.pos = stop,
                                           !.response.open = FALSE]
                  ELSE /\ pc' = "df_read"
                       /\ df' = [df EXCEPT !.downloaded = got, !.response.pos = stop]
          ELSE /\ pc' = "df_validate"
               /\ df' = [df EXCEPT !.response.open = FALSE]
               /\ obs' = oi
               /\ disk' = disk
    /\ UNCHANGED <<games, proxies, mon, cw, gp, default_download_dir, current_proxy_index,
                   last_real_download_url, use_chrome, cd, task, caller, runs, result, srv,
                   expected_size>>

\* a handler that takes every error for an interrupted read
IsIncompleteAlways(kind) == TRUE

\* 2811: is_incomplete
IsIncomplete(kind) == kind = "incomplete"

\* 2804-2913, 2994-3017: an exception raised in the retry loop is handled, o0
\* being what the run has done up to the raise.  kind "incomplete" is
\* IncompleteRead or "Connection broken"; kind "other" any other
\* ConnectionError/IOError raised while the body is read or written; kind "open"
\* the IOError of open(save_path) for a destination that cannot be written;
\* reconnect tells whether the GET issued by the handler raises.  The finally
\* clause closes whatever response is bound to `response` when the handler is
\* left, the one the handler has just obtained included.
Raise(kind, reconnect, o0) ==
    LET d == disk[task]
        retry_count == df.retry_count + 1
        current_size == IF d.apk.exists THEN st_size(d.apk) ELSE 0
        resumable == df.supports_range /\ current_size < df.total_size
        o1 == [o0 EXCEPT !.faults = @ + 1,
                         !.fatal = @ \/ kind # "incomplete",
                         !.partial = IF o0.faults = 0
                                     THEN [size |-> current_size,
                                           hdr |-> FileHeader(d.apk),
                                           resumable |-> resumable]
                                     ELSE @]
        ow == [o1 EXCEPT !.waits = Append(@, WaitTime(retry_count))]
        o2 == [ow EXCEPT !.loop_gets = @ + 1,
                         !.routes = @ \cup {df.proxy}]
    IN
    IF IsIncomplete(kind) /\ retry_count < max_retries
    THEN IF reconnect = "sigint"
         THEN \* 2829: KeyboardInterrupt during time.sleep(wait_time)
              caller = "process_game" /\ Interrupted(ow)
         ELSE IF resumable
         THEN \* 2832-2846
              LET o3 == [o2 EXCEPT !.ranges = @ \cup
                           {[offset |-> current_size, fsize |-> current_size]}]
              IN
              IF reconnect = "exc"
              THEN OuterExcept(df.has_real_url, df.use_proxy_for_download, d, o3)
              ELSE /\ pc' = "df_loop"
                   /\ df' = [df EXCEPT !.retry_count = retry_count,
                                       !.resume_pos = current_size,
                                       !.downloaded = current_size,
                                       !.response =
                                          [Response(current_size) EXCEPT !.open = FALSE]]
                   /\ obs' = o3
                   /\ UNCHANGED <<games, disk, result>>
         ELSE \* 2847-2862
              LET d2 == [d EXCEPT !.apk = NoFile]
                  o3 == [o2 EXCEPT !.deleted = @ \cup Deleted(d.apk, "restart")]
              IN
              IF reconnect = "exc"
              THEN OuterExcept(df.has_real_url, df.use_proxy_for_download, d2, o3)
              ELSE /\ pc' = "df_loop"
                   /\ df' = [df EXCEPT !.retry_count = retry_count,
                                       !.resume_pos = 0,
                                       !.downloaded = 0,
                                       !.response = [Response(0) EXCEPT !.open = FALSE]]
                   /\ disk' = [disk EXCEPT ![task] = d2]
                   /\ obs' = o3
                   /\ UNCHANGED <<games, result>>
    ELSE \* 2863-2913: retries used up, or an error that is not retried
         /\ reconnect = "ok"
         /\ OuterExcept(df.has_real_url, df.use_proxy_for_download, d, o1)

\* 2687-2698, 2804-2920: open(save_path), iter_content or f.write raises
HttpFault(kind, reconnect) ==
    /\ IF kind = "open"
       THEN pc = "df_loop" /\ df.retry_count < max_retries
       ELSE pc = "df_read" /\ df.response.open /\ df.response.pos < df.response.end
    /\ UNCHANGED <<proxies, mon, cw, gp, default_download_dir, current_proxy_index,
                   last_real_download_url, use_chrome, cd, task, caller, runs, srv,
                   expected_size>>
    /\ Raise(kind, reconnect, obs)

\* 2704-2768: the speed check that the chunk loop makes once 30 s have passed
\* since the last one.  why = "degraded" (2717-2744): the speed was below half of
\* initial_speed in this window and the one before; the response is closed and,
\* if the origin supports Range and the file is short of total_size, a Range
\* request from the size of the file is bound to `response`; otherwise a
\* ConnectionError is raised.  why = "periodic" (2749-2768): the connection is
\* 120 s old and downloaded < 95% of total_size; the response is closed and the
\* Range request made under the same condition, and nothing is raised otherwise.
\* The chunk loop still iterates the response it started with, now closed.  The
\* check runs after a chunk was written (2694-2706).
HttpRefresh(why) ==
    /\ pc = "df_read" /\ obs.written
    /\ df.response.open /\ df.response.pos < df.response.end
    /\ UNCHANGED <<proxies, mon, cw, gp, default_download_dir, current_proxy_index,
                   last_real_download_url, use_chrome, cd, task, caller, runs, srv,
                   expected_size>>
    /\ LET current_size == st_size(disk[task].apk)
           reopens == df.supports_range /\ current_size < df.total_size
           o1 == [obs EXCEPT !.refresh = why]
       IN /\ why = "periodic" => df.downloaded * 100 < df.total_size * 95
          /\ IF why = "degraded" /\ ~reopens
             THEN Raise("other", "ok", o1)
             ELSE /\ pc' = "df_check"
                  /\ df' = IF reopens
                           THEN [df EXCEPT !.resume_pos = current_size,
                                           !.downloaded = current_size,
                                           !.response.open = FALSE]
                           ELSE [df EXCEPT !.response.open = FALSE]
                  /\ obs' = IF reopens
                            THEN [o1 EXCEPT !.loop_gets = @ + 1,
                                            !.ranges = @ \cup
                                               {[offset |-> current_size,
                                                 fsize |-> current_size]}]
                            ELSE o1
                  /\ UNCHANGED <<games, disk, result>>

\* 2770-2776: the test that ends the pass in which the connection was refreshed:
\* slow, the speed of the window was below 0.1 MB/s; with downloaded < 90% of
\* total_size a ConnectionError is raised, otherwise the chunk loop goes on
HttpSpeedTest ==
    /\ pc = "df_check"
    /\ UNCHANGED <<proxies, mon, cw, gp, default_download_dir, current_proxy_index,
                   last_real_download_url, use_chrome, cd, task, caller, runs, srv,
                   expected_size>>
    /\ \E slow \in BOOLEAN :
          IF slow /\ df.downloaded * 10 < df.total_size * 9
          THEN Raise("other", "ok", obs)
          ELSE /\ ~slow
               /\ pc' = "df_read"
               /\ UNCHANGED <<games, disk, result, df, obs>>

\* a check that deletes every incomplete file
ValidateDownloadStrict(f, total_size) ==
    IF ~f.exists THEN [ok |-> TRUE, keep |-> FALSE]
    ELSE IF total_size > 0 /\ st_size(f) < total_size
         THEN [ok |-> FALSE, keep |-> FALSE]
    ELSE IF st_size(f) < KiB THEN [ok |-> FALSE, keep |-> FALSE]
    ELSE IF FileHeader(f) = "PK" THEN [ok |-> TRUE, keep |-> TRUE]
    ELSE [ok |-> FALSE, keep |-> FALSE]

\* 2922-2992: what the check after the loop decides for the file at save_path:
\* whether _download_file returns True and whether the file stays
ValidateDownload(f, total_size) ==
    IF ~f.exists THEN [ok |-> TRUE, keep |-> FALSE]
    ELSE IF total_size > 0 /\ st_size(f) < total_size
         THEN [ok |-> FALSE, keep |-> st_size(f) > MiB]
    ELSE IF st_size(f) < KiB THEN [ok |-> FALSE, keep |-> FALSE]
    ELSE IF FileHeader(f) = "PK" THEN [ok |-> TRUE, keep |-> TRUE]
    ELSE [ok |-> FALSE, keep |-> FALSE]

\* 2956-2980: the header is read inside `with open(save_path, 'rb')`, and the
\* unlink of a file that does not begin with PK (2975) runs with the file still
\* open.  Where an open file cannot be removed (Windows) the unlink raises, the
\* handler at 2977-2980 takes the file as downloaded and the call returns True;
\* locked is that outcome.
HttpValidate ==
    /\ pc = "df_validate"
    /\ UNCHANGED <<proxies, mon, cw, gp, default_download_dir, current_proxy_index,
                   last_real_download_url, use_chrome, cd, task, caller, runs, srv,
                   expected_size>>
    /\ \E locked \in BOOLEAN :
       LET d == disk[task]
           v0 == ValidateDownload(d.apk, df.total_size)
           by_header == /\ d.apk.exists /\ ~v0.ok /\ ~v0.keep
                        /\ ~(df.total_size > 0 /\ st_size(d.apk) < df.total_size)
                        /\ st_size(d.apk) >= KiB
           v == IF by_header /\ locked THEN [ok |-> TRUE, keep |-> TRUE] ELSE v0
           d2 == IF v.keep THEN d ELSE [d EXCEPT !.apk = NoFile]
           d3 == IF v.ok THEN CreateZipForApk(d2) ELSE d2
           o2 == IF v.keep THEN obs
                 ELSE [obs EXCEPT !.deleted = @ \cup Deleted(d.apk, "validate")]
       IN /\ locked => by_header
          /\ ReturnToCaller(v.ok, d3, o2)

\* the operator interrupts the program: while the body is streamed (2693-2698),
\* during a HEAD or GET that precedes the transfer (2482, 2517, 2546), or at a
\* tick of the browser strategy's waiting loop (1850-2136), whose finally clause
\* (2240-2270) closes the tab.  The files stay as they are.
KeyboardInterrupt ==
    /\ pc \in {"df_begin", "df_read", "chrome_wait"} /\ caller = "process_game"
    /\ Interrupted(obs)
    /\ cd' = CdIdle
    /\ UNCHANGED <<proxies, mon, cw, gp, default_download_dir, current_proxy_index,
                   last_real_download_url, use_chrome, task, caller, runs, srv,
                   expected_size>>

\* test_single_download.py 19-64: the manifest is written anew with the row "not
\* downloaded" while the folders stay, and a new KXDWDownloader (124-152) is given
\* the task
ManifestReset(t) ==
    /\ pc = "idle" /\ caller = "process_game" /\ runs < MaxRuns
    /\ games[t].downloaded
    /\ games' = [games EXCEPT ![t].downloaded = FALSE]
    /\ current_proxy_index' = 0
    /\ last_real_download_url' = None
    /\ UNCHANGED <<disk, proxies, mon, cw, gp, default_download_dir, use_chrome, cd, pc,
                   task, caller, runs, result, srv, expected_size, df, obs>>

\* ------------------------------------------------ _download_with_chrome
\* 1505-1826: the real address is resolved for an adown link only (and
\* _last_real_download_url assigned only then), the page is opened, and the
\* downloadWillBegin event is awaited for at most BeginPolls polls of 0.5 s.
\* arrives is the poll during which the event comes (beyond BeginPolls: too late).
\* 3441-3460: when the strategy fails process_game calls _download_file with
\* _last_real_download_url if it is set and with the task's link otherwise.
FallbackUrl(last, t) == IF last # None THEN last ELSE t

ChromeStart ==
    /\ pc = "chrome_resolve"
    /\ \E captured \in BOOLEAN, arrives \in {BeginPolls, BeginPolls + 1} :
       LET last == IF IsAdownUrl(task)
                   THEN IF captured THEN RealUrl(task) ELSE None
                   ELSE last_real_download_url
           wait_count == Min(arrives, BeginPolls)
           o2 == [obs EXCEPT !.chrome_calls = @ + 1, !.polls = wait_count]
       IN
       /\ (~IsAdownUrl(task)) => captured
       /\ last_real_download_url' = last
       /\ IF arrives <= BeginPolls
          THEN /\ pc' = "chrome_wait"
               /\ cd' = [guid |-> TRUE, br |-> "begun", fresh |-> "none"]
               /\ obs' = o2
               /\ df' = df
          ELSE /\ pc' = "df_begin"
               /\ cd' = CdIdle
               /\ obs' = [o2 EXCEPT !.chrome_result = "fail"]
               /\ df' = [DfIdle EXCEPT !.url = FallbackUrl(last, task)]
    /\ UNCHANGED <<games, disk, proxies, mon, cw, gp, default_download_dir,
                   current_proxy_index, use_chrome, task, caller, runs, result, srv,
                   expected_size>>

\* the browser's side of the download: it writes the body into a .crdownload
\* marker in the task's folder and renames the marker to the final .apk (under a
\* name of its own, or under the very name of save_path), or gives the download up
BrowserStep ==
    /\ pc \in {"chrome_wait", "chrome_final"}
    /\ LET d == disk[task]
       IN
       \/ /\ cd.br = "begun"
          /\ cd' = [cd EXCEPT !.br = "writing"]
          /\ disk' = [disk EXCEPT ![task].crd = WholeBody(task, srv.k, srv.size)]
       \/ /\ cd.br = "writing"
          /\ \E name \in {"capk", "apk"} :
               /\ cd' = [cd EXCEPT !.br = "done", !.fresh = name]
               /\ disk' = [disk EXCEPT ![task] =
                             IF name = "capk"
                             THEN [d EXCEPT !.crd = NoFile, !.capk = d.crd]
                             ELSE [d EXCEPT !.crd = NoFile, !.apk = d.crd]]
       \/ /\ cd.br = "writing" /\ pc = "chrome_wait"
          /\ cd' = [cd EXCEPT !.br = "done"]
          /\ disk' = [disk EXCEPT ![task].crd = NoFile]
    /\ UNCHANGED <<games, proxies, mon, cw, gp, default_download_dir, current_proxy_index,
                   last_real_download_url, use_chrome, pc, task, caller, runs, result, srv,
                   expected_size, df, obs>>

\* a check that looks at the task's folder only
has_crdownload_files_in_folder(d) == d.crd.exists

\* 1587-1606: a marker in the task's folder, or else one in the default download
\* directory
has_crdownload_files(d) == d.crd.exists \/ default_download_dir.crd

\* the browser of another session, running at the same time with no download
\* path set: it writes its .crdownload marker into the default download
\* directory, renames it to the final .apk, and the other session moves that file
\* to its own destination
OtherApk == WholeBody(OtherSession, "PK", 3 * MiB)

OtherSessionStep ==
    /\ pc \in {"chrome_wait", "chrome_final"}
    /\ \/ /\ default_download_dir = NoDownloads
          /\ default_download_dir' = [crd |-> TRUE, apk |-> FALSE]
       \/ /\ default_download_dir.crd
          /\ default_download_dir' = [crd |-> FALSE, apk |-> TRUE]
       \/ /\ default_download_dir.apk
          /\ default_download_dir' = NoDownloads
    /\ UNCHANGED <<games, disk, proxies, mon, cw, gp, current_proxy_index,
                   last_real_download_url, use_chrome, cd, pc, task, caller, runs, result,
                   srv, expected_size, df, obs>>

\* 2234-2270: the strategy's locals are gone when it returns; its finally clause
\* stops and closes the tab, which does not end a download the browser has begun
\* (no Browser.cancelDownload is sent): br stays as it is
AfterReturn(c) == IF c.br \in {"begun", "writing"}
                  THEN [CdIdle EXCEPT !.br = c.br]
                  ELSE CdIdle

\* the strategy returns False to process_game (3441-3460)
ChromeFails(d, o2) ==
    /\ pc' = "df_begin"
    /\ cd' = AfterReturn(cd)
    /\ df' = [DfIdle EXCEPT !.url = FallbackUrl(last_real_download_url, task)]
    /\ disk' = [disk EXCEPT ![task] = d]
    /\ obs' = [o2 EXCEPT !.chrome_result = "fail"]
    /\ UNCHANGED <<games, result>>

\* 1850-2136, 2235-2236: one pass of the waiting loop that ends it.  Without a
\* marker the download is taken as completed whatever the progress; with the
\* marker the loop ends when a progress or size rule sets download_completed, or
\* when max_wait_time passes are used up.
ChromePoll(how) ==
    /\ pc = "chrome_wait"
    /\ UNCHANGED <<proxies, mon, cw, gp, default_download_dir, current_proxy_index,
                   last_real_download_url, use_chrome, task, caller, runs, srv,
                   expected_size>>
    /\ IF ~has_crdownload_files(disk[task])
       THEN /\ how = "marker_gone"
            /\ pc' = "chrome_final"
            /\ UNCHANGED <<games, disk, result, cd, df, obs>>
       ELSE \/ /\ how = "rule"
               /\ pc' = "chrome_final"
               /\ UNCHANGED <<games, disk, result, cd, df, obs>>
            \/ /\ how = "timeout"
               /\ ChromeFails(disk[task], obs)

\* 2149-2233: after completion the marker is looked for once more; the newest
\* fresh .apk of the task's folder, or with none there the newest fresh .apk of
\* the default download directory, is moved to save_path and its header is read.
\* The unlink of a file that does not begin with PK (2226) runs with the file
\* still open: where that raises (locked), the handler at 2231-2233 returns False
\* and the file stays.
ChromeFinal ==
    /\ pc = "chrome_final"
    /\ UNCHANGED <<proxies, mon, cw, gp, current_proxy_index, last_real_download_url,
                   use_chrome, task, caller, runs, srv, expected_size>>
    /\ \E locked \in BOOLEAN :
       LET d == disk[task]
           moved == [d EXCEPT !.apk = d.capk, !.capk = NoFile]
           takes == /\ ~has_crdownload_files(d) /\ cd.fresh = "none"
                    /\ default_download_dir.apk
           by_header == /\ ~has_crdownload_files(d) /\ cd.fresh = "capk"
                        /\ FileHeader(moved.apk) # "PK"
       IN
       /\ locked => by_header
       /\ default_download_dir' = IF takes THEN NoDownloads ELSE default_download_dir
       /\ IF has_crdownload_files(d) THEN ChromeFails(d, obs)
          ELSE IF cd.fresh = "capk"
               THEN IF FileHeader(moved.apk) = "PK"
                    THEN /\ cd' = CdIdle
                         /\ ReturnToCaller(TRUE, CreateZipForApk(moved),
                                           [obs EXCEPT !.chrome_result = "ok"])
                    ELSE ChromeFails(IF locked THEN moved
                                     ELSE [moved EXCEPT !.apk = NoFile], obs)
          ELSE IF cd.fresh = "apk"
               THEN \* save_path itself is the newest .apk: it is unlinked (2196-2197)
                    \* and the rename that follows raises
                    ChromeFails([d EXCEPT !.apk = NoFile], obs)
          ELSE IF takes
               THEN \* 2181-2194, 2203-2205: shutil.move from the default directory
                    /\ cd' = CdIdle
                    /\ ReturnToCaller(TRUE, CreateZipForApk([d EXCEPT !.apk = OtherApk]),
                                      [obs EXCEPT !.chrome_result = "ok"])
          ELSE ChromeFails(d, obs)

\* 3496-3577: run() has the outcome of the task and goes on to the next row; the
\* locals of the finished call are gone, and what the browser still does for the
\* finished task is followed no further.  After a KeyboardInterrupt run() ends,
\* and the next task is given to a new KXDWDownloader (124-152).
IdleBody == [k |-> "PK", size |-> 0]

Finish ==
    /\ pc = "done" /\ caller = "process_game"
    /\ pc' = "idle"
    /\ task' = None
    /\ result' = "none"
    /\ srv' = IdleBody
    /\ expected_size' = 0
    /\ obs' = ObsIdle
    /\ current_proxy_index' = IF result = "interrupted" THEN 0 ELSE current_proxy_index
    /\ last_real_download_url' =
          IF result = "interrupted" THEN None ELSE last_real_download_url
    /\ cd' = CdIdle
    /\ UNCHANGED <<games, disk, proxies, mon, cw, gp, default_download_dir, use_chrome,
                   caller, runs, df>>

NextHttp ==
    \/ Finish
    \/ \E t \in Tasks : ProcessGameStart(t)
    \/ DownloadFileBegin
    \/ HttpOpen
    \/ HttpReadChunk
    \/ \E kind \in {"incomplete", "other", "open"},
          reconnect \in {"ok", "exc", "sigint"} :
          HttpFault(kind, reconnect)
    \/ \E why \in {"degraded", "periodic"} : HttpRefresh(why)
    \/ HttpSpeedTest
    \/ HttpValidate
    \/ KeyboardInterrupt
    \/ \E t \in Tasks : ManifestReset(t)

\* the downloader constructed with use_chrome=False
InitHttp == Init /\ use_chrome = FALSE

SpecHttp == InitHttp /\ [][NextHttp]_vars

\* the steps of the program itself (the others are the origin's, the browser's
\* and the operator's)
ProgramStep ==
    \/ Finish
    \/ DownloadFileBegin
    \/ HttpOpen
    \/ HttpReadChunk
    \/ HttpSpeedTest
    \/ HttpValidate

\* no proxy configured, and the program keeps taking its steps
InitNoProxy == InitHttp /\ proxies = <<>>

LiveNoProxy == InitNoProxy /\ [][NextHttp]_vars /\ WF_vars(ProgramStep)

\* _download_file called on its own for a destination that holds the first p
\* bytes of the artifact (p = 0: no file)
InitDF ==
    /\ games = [t \in Tasks |-> [downloaded |-> FALSE, size |-> 0, exp |-> 0]]
    /\ proxies \in ProxyLists
    /\ current_proxy_index = 0
    /\ last_real_download_url = None
    /\ use_chrome = FALSE
    /\ pc = "df_begin"
    /\ task = "direct"
    /\ caller = "direct"
    /\ runs = 0
    /\ result = "running"
    /\ srv \in Bodies
    /\ expected_size = 0
    /\ \E p \in {0} \cup CutPoints(srv.size) \cup {srv.size} :
          disk = [t \in Tasks |->
                    IF t = "direct" /\ p > 0
                    THEN [EmptyFolder EXCEPT !.apk = WholeBody("direct", srv.k, p)]
                    ELSE EmptyFolder]
    /\ df = [DfIdle EXCEPT !.url = "direct"]
    /\ cd = CdIdle
    /\ obs = ObsIdle
    /\ gp = GpIdle
    /\ mon = MonIdle
    /\ cw = CwIdle
    /\ default_download_dir = NoDownloads

NextDF ==
    \/ DownloadFileBegin
    \/ HttpOpen
    \/ HttpReadChunk
    \/ \E kind \in {"incomplete", "other", "open"},
          reconnect \in {"ok", "exc", "sigint"} :
          HttpFault(kind, reconnect)
    \/ \E why \in {"degraded", "periodic"} : HttpRefresh(why)
    \/ HttpSpeedTest
    \/ HttpValidate

SpecDF == InitDF /\ [][NextDF]_vars

Next ==
    \/ NextHttp
    \/ ChromeStart
    \/ BrowserStep
    \/ \E how \in {"marker_gone", "rule", "timeout"} : ChromePoll(how)
    \/ ChromeFinal

\* the downloader constructed with use_chrome=True and no proxy configured (the
\* runs with use_chrome=False and with proxies are those of SpecHttp)
InitChrome == Init /\ use_chrome = TRUE /\ proxies = <<>>

Spec == InitChrome /\ [][Next]_vars

\* one call of process_game by a downloader that uses the browser (as
\* test_single_download.py 19-64 makes it), while another session's browser
\* downloads into the default download directory
InitShared == Init /\ use_chrome = TRUE /\ proxies = <<>>

NextShared ==
    \/ \E t \in Tasks : ProcessGameStart(t)
    \/ ChromeStart
    \/ BrowserStep
    \/ \E how \in {"marker_gone", "rule", "timeout"} : ChromePoll(how)
    \/ ChromeFinal
    \/ DownloadFileBegin
    \/ HttpOpen
    \/ HttpReadChunk
    \/ \E kind \in {"incomplete", "other", "open"},
          reconnect \in {"ok", "exc", "sigint"} :
          HttpFault(kind, reconnect)
    \/ \E why \in {"degraded", "periodic"} : HttpRefresh(why)
    \/ HttpSpeedTest
    \/ HttpValidate
    \/ OtherSessionStep

SpecShared == InitShared /\ [][NextShared]_vars

\* ------------------------------------- the speed check of _download_file
\* the seconds between two instants of the clock, and what arrives at an instant:
\* the chunks received since the last arrival, 1, 4 or 16 MiB in all.  The sizes
\* of the speed check (downloaded, total_size, n) are counted in MiB.
MonTickLen == 15
ChunkBytes == {1, 4, 16}
MonTotal == 64
speed_check_interval == 30
connection_refresh_interval == 120

\* 2709, 2770: speed_mbps < min_speed_mbps (0.1 MB/s) for mb MiB received in secs
SlowerThanMin(mb, secs) == mb * 10 < secs

\* 2717: speed_mbps < initial_speed * speed_degradation_threshold (0.5)
Degraded(mb, secs, initial) == 2 * mb * initial[2] < initial[1] * secs

\* iter_content blocks: time passes and no chunk arrives
MonTick ==
    /\ mon.state = "reading" /\ mon.now < MaxMonTime
    /\ mon' = [mon EXCEPT !.now = @ + MonTickLen, !.arrived = FALSE]
    /\ UNCHANGED <<games, disk, proxies, gp, cw, default_download_dir,
                   current_proxy_index, last_real_download_url, use_chrome, cd, pc, task,
                   caller, runs, result, srv, expected_size, df, obs>>

\* 2693-2776: chunks of n MiB in all have arrived and are written; the loop
\* ends when total_size is reached, and otherwise makes its speed check if 30 s
\* have passed since the last one.  state "raised" is the ConnectionError of 2744,
\* "aborted" that of 2773, "refreshed" a pass that closed the response the loop
\* iterates.
MonChunk(n) ==
    /\ mon.state = "reading" /\ ~mon.arrived
    /\ UNCHANGED <<games, disk, proxies, gp, cw, default_download_dir,
                   current_proxy_index, last_real_download_url, use_chrome, cd, pc, task,
                   caller, runs, result, srv, expected_size, df, obs>>
    /\ LET downloaded == mon.downloaded + n
           elapsed == mon.now - mon.last_check_time
           bytes == downloaded - mon.last_downloaded
           m0 == [mon EXCEPT !.downloaded = downloaded, !.arrived = TRUE]
           reopens == mon.supports_range /\ downloaded < mon.total_size
           \* 2730-2741, 2758-2768
           Reopened(m) == [m EXCEPT !.last_check_time = mon.now,
                                    !.last_downloaded = downloaded,
                                    !.last_connection_time = mon.now,
                                    !.consecutive_slow_checks = 0,
                                    !.initial_speed = NoSpeed]
           \* 2712-2746
           slow == mon.initial_speed # NoSpeed
                   /\ Degraded(bytes, elapsed, mon.initial_speed)
           count == IF slow THEN mon.consecutive_slow_checks + 1 ELSE 0
           degraded == slow /\ count >= 2
           m1 == IF mon.initial_speed = NoSpeed
                 THEN [m0 EXCEPT !.initial_speed =
                                    IF bytes > 0 THEN <<bytes, elapsed>> ELSE NoSpeed]
                 ELSE IF degraded /\ reopens THEN Reopened(m0)
                 ELSE [m0 EXCEPT !.consecutive_slow_checks = count]
           \* 2749-2768
           periodic == /\ mon.now - m1.last_connection_time >= connection_refresh_interval
                       /\ downloaded * 100 < mon.total_size * 95
           m2 == IF periodic /\ reopens THEN Reopened(m1) ELSE m1
           closed == degraded \/ periodic
           \* 2770-2776
           aborts == SlowerThanMin(bytes, elapsed) /\ downloaded * 10 < mon.total_size * 9
           m3 == [m2 EXCEPT !.last_check_time = mon.now, !.last_downloaded = downloaded]
       IN
       IF mon.total_size > 0 /\ downloaded >= mon.total_size
       THEN mon' = [m0 EXCEPT !.state = "complete"]
       ELSE IF elapsed < speed_check_interval
       THEN mon' = m0
       ELSE IF degraded /\ ~reopens
       THEN mon' = [m1 EXCEPT !.state = "raised"]
       ELSE IF aborts
       THEN mon' = [m2 EXCEPT !.state = "aborted"]
       ELSE mon' = [m3 EXCEPT !.state = IF closed THEN "refreshed" ELSE "reading"]

NextMon ==
    \/ MonTick
    \/ \E n \in ChunkBytes : MonChunk(n)

\* the chunk loop entered at time 0 with nothing downloaded (2672-2685), for an
\* origin that states the length of the body or does not
InitMon ==
    /\ games = [t \in Tasks |-> [downloaded |-> FALSE, size |-> 0, exp |-> 0]]
    /\ disk = [t \in Tasks |-> NoFolder]
    /\ proxies = <<>>
    /\ current_proxy_index = 0
    /\ last_real_download_url = None
    /\ use_chrome = FALSE
    /\ pc = "idle"
    /\ task = None
    /\ caller = "monitor"
    /\ runs = 0
    /\ result = "none"
    /\ srv = [k |-> "PK", size |-> 0]
    /\ expected_size = 0
    /\ df = DfIdle
    /\ cd = CdIdle
    /\ obs = ObsIdle
    /\ gp = GpIdle
    /\ cw = CwIdle
    /\ default_download_dir = NoDownloads
    /\ \E total \in {0, MonTotal}, sr \in BOOLEAN :
          mon = [MonIdle EXCEPT !.state = "reading", !.total_size = total,
                                !.supports_range = sr]

SpecMon == InitMon /\ [][NextMon]_vars

\* ------------------------------- the waiting loop of _download_with_chrome
base_timeout == 600
WholeSize == 2
EventEvery == 30

\* 1831-1841: max_wait_time for a page that states expected_size_mb (0: none);
\* estimated_time is (mb / 0.1) * 1.5
MaxWaitTime(mb) ==
    IF mb > 0 THEN Max(base_timeout, Min(15 * mb, 7200)) ELSE 1800

\* 1609-1651: check_download_complete for a file that exists; related tells
\* whether <stem>.crdownload exists beside it, which is the file itself when the
\* file is the marker
check_download_complete(size_reached, has_crdownload, related) ==
    size_reached /\ ~(has_crdownload /\ related)

\* a completed state trusted without the second look
StateRuleUnchecked(state, recheck) == state = "completed"

\* 1764-1780: the handler's rule for an event whose state is completed, finished
\* or success; recheck is has_crdownload_files() after the sleep of one second
StateRule(state, recheck) == state = "completed" /\ ~recheck

\* 1850-2136, 2235-2236: four passes of the loop (2 s: each pass sleeps 0.5 s and
\* adds one to wait_count) that find the same files, the last of them making the
\* file-size poll when it is due.  The file the poll looks at is the marker
\* (1919-1925), as the loop is left at 1864-1871 when there is none.
WaitPasses ==
    /\ cw.state = "loop" /\ cw.now < cw.horizon
    /\ UNCHANGED <<games, disk, proxies, gp, mon, default_download_dir,
                   current_proxy_index, last_real_download_url, use_chrome, cd, pc, task,
                   caller, runs, result, srv, expected_size, df, obs>>
    /\ LET c == cw
           now == c.now + 2
           wait_count == c.wait_count + 4
           t == [c EXCEPT !.now = now, !.wait_count = wait_count]
           \* 1875-1893
           rule100 == /\ c.progress_event_available /\ c.pct100
                      /\ now - c.last_progress_check_time > 10
           \* 1897-1903
           polls == now - c.last_check_time >=
                       (IF c.progress_event_available THEN 5 ELSE 2)
           grew == c.size > c.last_file_size
           known == c.expected_size_mb > 0
           reached == known /\ c.size >= WholeSize
           \* 2057-2071
           size_rule == /\ polls /\ c.size > 0 /\ reached
                        /\ check_download_complete(TRUE, c.marker, TRUE)
           \* 2087-2115
           counted == c.stable_size_count + 1
           stable_rule == /\ polls /\ c.size > 0 /\ ~known /\ ~grew
                          /\ c.last_file_size > 0
                          /\ counted >= 5 /\ wait_count > 30
                          /\ check_download_complete(TRUE, c.marker, TRUE)
                          /\ (~c.progress_event_available \/ wait_count > 60)
           stable_size_count ==
               IF ~polls THEN c.stable_size_count
               ELSE IF c.size = 0 \/ grew THEN 0
               ELSE IF known THEN c.stable_size_count
               ELSE IF c.last_file_size > 0
                    THEN IF counted >= 5 /\ wait_count > 30 THEN counted ELSE 0
                    ELSE 0
           last_file_size ==
               IF polls /\ c.size > 0 /\ grew /\ ~reached THEN c.size
               ELSE c.last_file_size
           \* 2011-2012
           last_progress_time ==
               IF polls /\ c.size > 0 /\ grew THEN now ELSE c.last_progress_time
           \* 2126-2135
           max_wait_time ==
               IF now - last_progress_time < 60 /\ wait_count >= c.max_wait_time - 60
               THEN Min(c.max_wait_time + 300, 7200)
               ELSE c.max_wait_time
           polled == [t EXCEPT !.stable_size_count = stable_size_count,
                               !.last_file_size = last_file_size,
                               !.last_progress_time = last_progress_time,
                               !.last_check_time = IF polls THEN now ELSE @,
                               !.seen = IF polls THEN c.size ELSE @,
                               !.unchanged = IF ~polls THEN @
                                             ELSE IF c.size = c.seen /\ c.size > 0
                                             THEN @ + 1 ELSE 0]
       IN
       IF c.download_completed
       THEN \* 1850: the handler has set the flag
            cw' = [c EXCEPT !.state = "final"]
       ELSE IF ~c.marker
       THEN \* 1863-1871
            cw' = [t EXCEPT !.download_completed = TRUE, !.by = "no_marker",
                            !.state = "final"]
       ELSE IF rule100
       THEN cw' = [t EXCEPT !.download_completed = TRUE, !.by = "pct100_wait",
                            !.state = "final"]
       ELSE IF size_rule \/ stable_rule
       THEN cw' = [polled EXCEPT !.download_completed = TRUE,
                                 !.by = IF size_rule THEN "size" ELSE "stable",
                                 !.state = "final"]
       ELSE cw' = [polled EXCEPT !.max_wait_time = max_wait_time,
                                 !.by = IF wait_count >= max_wait_time
                                        THEN "timeout" ELSE "none",
                                 !.state = IF wait_count >= max_wait_time
                                           THEN "fail" ELSE "loop"]

\* 1675: the handler goes on for an event of this attempt's download (own), and
\* for every event while download_guid is not set
GuidPasses(download_guid, own) == ~download_guid \/ own

\* 1676-1780: what the handler does with an event it goes on for, c being the
\* strategy's variables and the files it finds.  state is the event's state,
\* p100 whether its progress is >= 99.9%, renamed whether the browser renames
\* the marker during the handler's sleep of one second (1767).
HandleProgress(c, state, p100, renamed) ==
    LET t100 == IF p100 /\ c.t100 = -1 THEN c.now ELSE c.t100
        time_since_100 == c.now - t100
        \* 1710-1742
        r_gone == p100 /\ time_since_100 >= 2 /\ ~c.marker
        r_wait == p100 /\ time_since_100 >= 2 /\ c.marker /\ time_since_100 > 10
        \* 1754-1759
        r_marker == ~c.marker
        \* 1764-1780
        recheck == c.marker /\ ~renamed
        r_state == StateRule(state, recheck)
    IN [c EXCEPT !.progress_event_available = TRUE,
                 !.last_progress_time = c.now,
                 !.last_progress_check_time = c.now,
                 !.pct100 = p100,
                 !.t100 = t100,
                 !.marker = recheck,
                 !.apk = @ \/ renamed,
                 !.download_completed = @ \/ r_gone \/ r_wait \/ r_marker \/ r_state,
                 !.by = IF r_wait THEN "pct100_wait"
                        ELSE IF r_gone \/ r_marker THEN "no_marker"
                        ELSE IF r_state THEN "event_state"
                        ELSE "none",
                 !.ev = [state |-> state, marker |-> c.marker,
                         recheck |-> recheck, pct_rule |-> r_gone \/ r_wait]]

\* 1663-1783: on_download_progress for an event of this attempt's download,
\* called on the event thread while the loop sleeps
OnDownloadProgress(state, p100, renamed) ==
    /\ cw.state = "loop" /\ ~cw.download_completed
    /\ renamed => (state = "completed" /\ cw.marker /\ cw.size >= 1)
    /\ cw.pct100 => p100
    /\ UNCHANGED <<games, disk, proxies, gp, mon, default_download_dir,
                   current_proxy_index, last_real_download_url, use_chrome, cd, pc, task,
                   caller, runs, result, srv, expected_size, df, obs>>
    /\ GuidPasses(cw.download_guid, TRUE)
    /\ cw' = HandleProgress(cw, state, p100, renamed)

\* the browser's side while the loop waits: it creates the marker, writes the
\* next half of the body into it, or renames it to the final .apk
CwBrowserStep ==
    /\ cw.state = "loop" /\ cw.now < cw.horizon
    /\ \/ /\ ~cw.marker /\ ~cw.apk
          /\ cw' = [cw EXCEPT !.marker = TRUE]
       \/ /\ cw.marker /\ cw.size < WholeSize
          /\ cw' = [cw EXCEPT !.size = @ + 1]
       \/ /\ cw.marker /\ cw.size >= 1
          /\ cw' = [cw EXCEPT !.marker = FALSE, !.apk = TRUE]
    /\ UNCHANGED <<games, disk, proxies, gp, mon, default_download_dir,
                   current_proxy_index, last_real_download_url, use_chrome, cd, pc, task,
                   caller, runs, result, srv, expected_size, df, obs>>

\* 2149-2233: after the loop has ended with download_completed set the strategy
\* sleeps 2 s (renamed: the browser renames the marker meanwhile), returns False
\* if a marker is still there, and otherwise moves the fresh .apk to save_path
\* and returns True if it begins with PK
CwFinal(renamed) ==
    /\ cw.state = "final"
    /\ renamed => (cw.marker /\ cw.size >= 1)
    /\ LET marker == cw.marker /\ ~renamed
           apk == cw.apk \/ renamed
       IN cw' = [cw EXCEPT !.marker = marker, !.apk = apk,
                           !.state = IF ~marker /\ apk THEN "ok" ELSE "fail"]
    /\ UNCHANGED <<games, disk, proxies, gp, mon, default_download_dir,
                   current_proxy_index, last_real_download_url, use_chrome, cd, pc, task,
                   caller, runs, result, srv, expected_size, df, obs>>

\* the loop entered (1843-1848) for a page that states mb MiB, followed for h
\* seconds, the browser having created its marker or not yet
CwEnter(mb, h, marker) ==
    [CwIdle EXCEPT !.state = "loop", !.horizon = h, !.expected_size_mb = mb,
                   !.marker = marker, !.max_wait_time = MaxWaitTime(mb),
                   !.download_guid = TRUE]

InitIdle ==
    /\ games = [t \in Tasks |-> [downloaded |-> FALSE, size |-> 0, exp |-> 0]]
    /\ disk = [t \in Tasks |-> NoFolder]
    /\ proxies = <<>>
    /\ current_proxy_index = 0
    /\ last_real_download_url = None
    /\ use_chrome = TRUE
    /\ pc = "idle"
    /\ task = None
    /\ caller = "wait_loop"
    /\ runs = 0
    /\ result = "none"
    /\ srv = [k |-> "PK", size |-> 0]
    /\ expected_size = 0
    /\ df = DfIdle
    /\ cd = CdIdle
    /\ obs = ObsIdle
    /\ gp = GpIdle
    /\ mon = MonIdle
    /\ default_download_dir = NoDownloads

\* the first seconds of the wait, with every event and every step of the browser
InitWait ==
    /\ InitIdle
    /\ \E mb \in {0, 30}, marker \in BOOLEAN : cw = CwEnter(mb, ShortHorizon, marker)

NextWait ==
    \/ WaitPasses
    \/ \E state \in {"inProgress", "completed"}, p100 \in BOOLEAN, renamed \in BOOLEAN :
          OnDownloadProgress(state, p100, renamed)
    \/ CwBrowserStep
    \/ \E renamed \in BOOLEAN : CwFinal(renamed)

SpecWait == InitWait /\ [][NextWait]_vars

\* the whole wait for a download whose marker stays: the browser reports
\* progress below 100% every EventEvery seconds until it stops reporting
InitTimeout ==
    /\ InitIdle
    /\ \E mb \in {0, 30, 100, 600} :
          cw = [CwEnter(mb, LongHorizon, TRUE) EXCEPT !.size = 1]

NextTimeout ==
    \/ WaitPasses
    \/ /\ cw.now = cw.last_progress_check_time + EventEvery
       /\ OnDownloadProgress("inProgress", FALSE, FALSE)

SpecTimeout == InitTimeout /\ [][NextTimeout]_vars

\* 1653-1657: on_download_will_begin stores the guid of the download this
\* attempt's navigation has begun
OnDownloadWillBegin ==
    /\ cw.state = "begin" /\ ~cw.download_guid
    /\ cw' = [cw EXCEPT !.download_guid = TRUE]
    /\ UNCHANGED <<games, disk, proxies, gp, mon, default_download_dir,
                   current_proxy_index, last_real_download_url, use_chrome, cd, pc, task,
                   caller, runs, result, srv, expected_size, df, obs>>

\* 1818-1848: the wait for downloadWillBegin, four polls of 0.5 s at a time.
\* With the guid set the waiting loop is entered and its locals are assigned
\* (download_completed and the handler's variables are not) and the loop is
\* followed for AfterBegin seconds; after BeginPolls polls without it the
\* strategy returns False.
BeginWait ==
    /\ cw.state = "begin"
    /\ cw' = IF cw.download_guid
             THEN [cw EXCEPT !.state = "loop", !.horizon = cw.now + AfterBegin,
                             !.wait_count = 0, !.last_file_size = 0,
                             !.last_progress_time = cw.now,
                             !.last_check_time = cw.now,
                             !.stable_size_count = 0,
                             !.max_wait_time = MaxWaitTime(cw.expected_size_mb)]
             ELSE IF cw.begin_count >= BeginPolls
             THEN [cw EXCEPT !.state = "fail", !.by = "no_begin"]
             ELSE [cw EXCEPT !.now = @ + 2, !.begin_count = @ + 4]
    /\ UNCHANGED <<games, disk, proxies, gp, mon, default_download_dir,
                   current_proxy_index, last_real_download_url, use_chrome, cd, pc, task,
                   caller, runs, result, srv, expected_size, df, obs>>

\* 1663-1783: on_download_progress for an event of another download of the same
\* browser (one that an earlier attempt began and did not cancel): its guid is
\* not this attempt's, and its marker is not in this task's folder
OnForeignProgress(state, p100) ==
    /\ cw.state \in {"begin", "loop"} /\ cw.now < cw.horizon
    /\ cw' = IF GuidPasses(cw.download_guid, FALSE)
             THEN HandleProgress(cw, state, p100, FALSE)
             ELSE cw
    /\ UNCHANGED <<games, disk, proxies, gp, mon, default_download_dir,
                   current_proxy_index, last_real_download_url, use_chrome, cd, pc, task,
                   caller, runs, result, srv, expected_size, df, obs>>

\* 1785-1816: the listeners are registered and the page is opened, for a page
\* that states mb MiB; events are followed for BeginHorizon seconds
InitBegin ==
    /\ InitIdle
    /\ \E mb \in {0, 30} :
          cw = [CwIdle EXCEPT !.state = "begin", !.horizon = BeginHorizon,
                              !.expected_size_mb = mb]

NextBegin ==
    \/ OnDownloadWillBegin
    \/ BeginWait
    \/ \E state \in {"inProgress", "completed"}, p100 \in BOOLEAN :
          OnForeignProgress(state, p100)
    \/ WaitPasses
    \/ \E state \in {"inProgress", "completed"}, p100 \in BOOLEAN, renamed \in BOOLEAN :
          OnDownloadProgress(state, p100, renamed)
    \/ CwBrowserStep
    \/ \E renamed \in BOOLEAN : CwFinal(renamed)

SpecBegin == InitBegin /\ [][NextBegin]_vars

\* ===================================================================== claims

\* C1: a run of process_game reports success (and the row is recorded as
\* downloaded) only if the file at the destination begins with PK; a file that
\* begins with HT is never accepted, whatever its size.
C1_SuccessOnlyWithPK ==
    (pc = "done" /\ result = "ok") =>
        /\ disk[task].apk.exists
        /\ FileHeader(disk[task].apk) = "PK"

FreshPkApk ==
    \/ cd.fresh = "capk" /\ FileHeader(disk[task].capk) = "PK"
    \/ cd.fresh = "apk" /\ FileHeader(disk[task].apk) = "PK"

C3_MarkerGoneSucceeds ==
    [][(/\ pc = "chrome_final" /\ pc' # "chrome_final"
        /\ cd.guid
        /\ ~has_crdownload_files(disk[task])
        /\ FreshPkApk)
       => obs'.chrome_result = "ok"]_vars

\* C4: a body that is the sentinel `error` is never a success, and with further
\* proxies in the pool the task is failed only after the request was made again
\* through another route.
C4_SentinelSwitchesProxy ==
    (pc = "done" /\ obs.sentinel) =>
        /\ result # "ok"
        /\ Len(proxies) >= 2 => Cardinality(obs.routes) >= 2

C6_Bounded ==
    /\ obs.loop_gets <= max_retries
    /\ df.retry_count <= max_retries
    /\ df.depth <= 1
    /\ obs.http_calls <= 1 + df.depth
    /\ obs.chrome_calls <= 1

C6_FailsWhenAlwaysFaulting ==
    (/\ pc = "done" /\ result # "interrupted"
     /\ proxies = <<>> /\ obs.faults >= 1 /\ ~obs.written) => result = "fail"

Succeeded(d) ==
    /\ d.info /\ d.apk.exists /\ FileHeader(d.apk) = "PK" /\ d.zip = st_size(d.apk)

C7_SecondRunIdempotent ==
    [][\A t \in Tasks :
         (pc = "idle" /\ task' = t /\ runs' = runs + 1 /\ Succeeded(disk[t]))
         => (pc' = "done" /\ result' = "ok" /\ disk'[t].apk = disk[t].apk)]_vars

\* C8: the HTTP strategy that follows a failed browser strategy is given this
\* task's own address: the real address resolved for it, or its link.
C8_FallbackUrl ==
    (pc = "df_begin" /\ obs.chrome_calls = 1 /\ df.depth = 0) =>
        df.url \in {task, RealUrl(task)}

\* C9: after in-transfer faults a task is failed only when every proxy of the
\* pool has been tried.
C9_FailsOnlyWhenPoolUsedUp ==
    (pc = "done" /\ result = "fail" /\ obs.waits # <<>>) =>
        \A i \in 1..Len(proxies) : i \in obs.routes

\* C10 (as the code has it): a destination file is deleted in a failing run only
\* if it is not larger than 1 MiB, or does not begin with PK, or the transfer had
\* to start over because it could not be resumed by Range; a partial file that is
\* larger than 1 MiB, begins with PK and could be resumed is on disk unchanged
\* when process_game returns.
C10_PartialKept ==
    /\ \A r \in obs.deleted :
          /\ r.size <= MiB \/ r.hdr # "PK" \/ r.why = "restart"
          /\ r.why = "restart" => ~obs.partial.resumable
    /\ (/\ pc = "done" /\ result = "fail" /\ obs.faults >= 1
        /\ obs.partial.size > MiB /\ obs.partial.hdr = "PK" /\ obs.partial.resumable)
       => disk[task].apk = WholeBody(task, "PK", obs.partial.size)

C10_Witness ==
    /\ pc = "done" /\ result = "fail" /\ obs.faults >= 1
    /\ obs.partial.size > MiB /\ obs.partial.hdr = "PK" /\ obs.partial.resumable
    /\ disk[task].apk = WholeBody(task, "PK", obs.partial.size)

\* C10 as stated: a partial file is deleted only if it is smaller than 1 MiB and
\* below 95% of the expected size when that is known
C10_Original ==
    obs.faults >= 1 =>
        \A r \in obs.deleted :
            r.hdr = "PK" =>
                /\ r.size < MiB
                /\ expected_size > 0 => r.size * 100 < expected_size * 95

\* C11: when a run of process_game starts for a task whose destination holds a
\* partial package (beginning with PK, at least 1 MiB, smaller than the size the
\* page states) left by an earlier run, the run keeps that file and goes on to a
\* transfer; it neither deletes the file nor ends without transferring.
PartialLeft(t) ==
    /\ ~games[t].downloaded /\ games[t].exp > 0
    /\ disk[t].apk.exists /\ FileHeader(disk[t].apk) = "PK"
    /\ st_size(disk[t].apk) >= MiB /\ st_size(disk[t].apk) < games[t].exp

C11_NextRunResumes ==
    [][\A t \in Tasks :
         (pc = "idle" /\ task' = t /\ runs' = runs + 1 /\ PartialLeft(t))
         => (/\ disk'[t].apk = disk[t].apk
             /\ pc' \in {"df_begin", "chrome_resolve"})]_vars

\* C12: an error that is not an interrupted read (an IOError of the destination,
\* any other connection error) ends _download_file at once with failure: the step
\* in which it is raised makes no backoff wait, no request and no move of the
\* proxy index.
C12_FatalFailsAtOnce ==
    [][(obs'.fatal /\ ~obs.fatal)
       => (/\ pc' = "done" /\ result' = "fail"
           /\ obs'.waits = obs.waits
           /\ obs'.loop_gets = obs.loop_gets
           /\ obs'.http_calls = obs.http_calls
           /\ obs'.routes = obs.routes
           /\ current_proxy_index' = current_proxy_index)]_vars

C12_Witness ==
    /\ pc = "done" /\ obs.fatal /\ result = "fail" /\ Len(proxies) = MaxProxies
    /\ obs.http_calls = 1 /\ obs.waits = <<>>

\* C13: with one caller and k >= 1 proxies, the i-th call of _get_next_proxy
\* (i = 0, 1, ...) returns the entry at (s + i) mod k, s being the index at the
\* first call; the index stays in 0..k-1; with no proxy every call returns None
\* and the index does not move.
C13_RoundRobin ==
    gp.n = 1 =>
        LET k == Len(proxies) IN
        IF k = 0
        THEN /\ \A i \in 1..Len(gp.ret) : gp.ret[i] = Direct
             /\ current_proxy_index = gp.start
        ELSE /\ \A i \in 1..Len(gp.ret) : gp.ret[i] = ((gp.start + (i - 1)) % k) + 1
             /\ current_proxy_index \in 0..(k - 1)
             /\ (gp.pc[1] = "out") => current_proxy_index = (gp.start + gp.calls) % k

C13_Witness ==
    /\ gp.n = 1 /\ Len(proxies) = MaxProxies /\ gp.start = MaxProxies - 1
    /\ Len(gp.ret) > MaxProxies /\ gp.pc[1] = "out"

\* C14: with several callers on a pool of k >= 2 proxies, the index has advanced
\* by the number of calls made whenever no call is in progress, and two calls
\* return two consecutive entries of the rotation.
C14_AtomicAdvance ==
    (/\ gp.n >= 2 /\ Len(proxies) >= 2
     /\ \A c \in Callers : gp.pc[c] = "out") =>
        /\ current_proxy_index = (gp.start + gp.calls) % Len(proxies)
        /\ Len(gp.ret) = 2 =>
              {gp.ret[1], gp.ret[2]} =
                 {gp.start + 1, ((gp.start + 1) % Len(proxies)) + 1}

\* C15: the step in which a KeyboardInterrupt is delivered ends the task: the
\* run is over with no request made after it, and no file of the task is deleted
\* or changed.
C15_InterruptStops ==
    [][(obs'.interrupted /\ ~obs.interrupted)
       => (/\ pc' = "done" /\ result' = "interrupted"
           /\ disk' = disk
           /\ obs'.loop_gets = obs.loop_gets
           /\ obs'.http_calls = obs.http_calls)]_vars

\* C16: no task's destination ever holds the file that the browser of another
\* session produced: a task moves, renames and deletes only files of its own
\* folder, and the other session's download in the default download directory is
\* taken away by that session alone.
C16_OwnFilesOnly ==
    \A t \in Tasks : \A i \in 1..Len(disk[t].apk.segs) :
        disk[t].apk.segs[i].o # OtherSession

\* C17: the HTTP strategy runs for a task only when no download that the browser
\* began for that task is still in progress.
C17_NoOverlap ==
    (pc \in {"df_begin", "df_loop", "df_read", "df_check", "df_validate"}) =>
        cd.br \notin {"begun", "writing"}

\* C18: nothing of an earlier task is carried into a later one: the address a
\* call of _download_file works on is the link of the task being processed or the
\* real address resolved from that link, and no task's destination holds bytes
\* that the origin served for the other task.
C18_NoCarryOver ==
    /\ df.url # None => UrlOwner(df.url) = task
    /\ \A t \in Tasks : \A i \in 1..Len(disk[t].apk.segs) :
          disk[t].apk.segs[i].o \in {t, OtherSession}

\* C19: after the reconnect that follows an incomplete read the retry loop reads
\* on from the new response, which is open and stands at the size of the file;
\* and when the loop then ends without a further fault, for an origin that serves
\* the package, states its length and supports Range, the file is complete.
C19_ReconnectContinues ==
    /\ (pc = "df_loop" /\ df.retry_count >= 1) =>
          /\ df.response.open
          /\ df.response.pos = st_size(disk[task].apk)
    /\ (/\ pc = "df_validate" /\ df.retry_count >= 1
        /\ df.supports_range /\ df.total_size > 0) =>
          st_size(disk[task].apk) = srv.size

\* C20: the first transient error of a transfer does not fail the task: a fault
\* raised while the body is streamed (connection reset, truncated chunked
\* encoding, the self-abort on collapsed speed) is followed by a backoff wait and
\* a further attempt, and the step that meets the sentinel body does not end the
\* task with failure.
C20_TransientRetried ==
    [][/\ (pc = "df_read" /\ obs.faults = 0 /\ obs'.faults = 1)
            => Len(obs'.waits) = Len(obs.waits) + 1
       /\ (~obs.sentinel /\ obs'.sentinel)
            => ~(pc' = "done" /\ result' = "fail")]_vars

\* C21: the retry loop opens the destination for appending exactly when the
\* response it is about to read starts at the size the file has, and truncating
\* otherwise; a response that starts at byte 0 is written to an empty file,
\* whatever the destination held before.
C21_AppendOnlyWhenResuming ==
    [][(pc = "df_loop" /\ pc' = "df_read") =>
         LET f == disk[task].apk IN
         /\ (df'.mode = "ab") <=>
               (f.exists /\ st_size(f) > 0 /\ df.response.pos = st_size(f))
         /\ (df.response.pos = 0) => (disk'[task].apk = EmptyFile)]_vars

\* C22: the pass of the speed check that finds the speed halved in two
\* consecutive windows is a refresh and not a failure: retry_count stays as it
\* is, the call does not end, and the loop reads on from an open connection that
\* stands at the size of the file.
C22_DegradedRefreshGoesOn ==
    [][(obs.refresh = "none" /\ obs'.refresh = "degraded") =>
         /\ pc' # "done" /\ result' = "running"
         /\ df'.retry_count = df.retry_count
         /\ df'.response.open
         /\ df'.response.pos = st_size(disk'[task].apk)]_vars

\* C23: the pass of the speed check that finds the connection 120 s old with less
\* than 95% of the expected size transferred leaves the loop reading from an open
\* connection that stands at the size of the file, whether or not the speed has
\* degraded.
C23_PeriodicRefreshGoesOn ==
    [][(obs.refresh = "none" /\ obs'.refresh = "periodic") =>
         /\ df'.response.open
         /\ df'.response.pos = st_size(disk'[task].apk)]_vars

\* C24: whenever 30 s or more have passed since the last speed check, the bytes
\* received since then make less than 0.1 MiB/s, and less than 90% of the
\* expected size is written (or the size is unknown), the next thing that happens
\* is the self-abort: neither does time pass with the transfer still reading, nor
\* does a chunk arrive without the abort being raised.
C24_SlowWindowAborts ==
    [][(/\ mon.state = "reading"
        /\ mon.now - mon.last_check_time >= speed_check_interval
        /\ SlowerThanMin(mon'.downloaded - mon.last_downloaded,
                         mon.now - mon.last_check_time)
        /\ \/ mon.total_size = 0
           \/ mon'.downloaded * 10 < mon.total_size * 9)
       => mon'.state \in {"aborted", "raised"}]_vars


\* C25: once the reported progress has been at 100% for more than 10 seconds
\* with the marker still there, the download counts as completed and the
\* strategy reports success instead of failing because of the marker.
C25_MarkerToleratedAfterTenSeconds ==
    cw.by = "pct100_wait" => cw.state # "fail"

C27_NoEarlyTimeout ==
    cw.by = "timeout" => cw.now >= Max(600, Min(15 * cw.expected_size_mb, 7200))

\* C28: the loop times out only after at least 60 seconds without progress or
\* at the cap of two hours.
C28_TimeoutOnlyOnStall ==
    cw.by = "timeout" =>
        \/ cw.now - cw.last_progress_time >= 60
        \/ cw.now >= 7200

\* C29: with no expected size, a file whose size was the same at 5 consecutive
\* polls of 2 seconds is reported complete once more than 30 seconds have
\* passed, the marker being still there.
C29_StableSizeCompletes ==
    (/\ cw.state = "loop" /\ cw.expected_size_mb = 0 /\ cw.marker
     /\ ~cw.progress_event_available
     /\ cw.unchanged >= 5 /\ cw.now > 30 /\ cw.last_check_time = cw.now)
        => cw.download_completed


\* a catalogue whose detail pages state 4 MiB for packages of which the server
\* delivers 3 MiB
StatedSize == 4 * MiB
DeliveredSize == 3 * MiB

InitStated ==
    /\ games = [t \in Tasks |->
                  [downloaded |-> FALSE, size |-> DeliveredSize, exp |-> StatedSize]]
    /\ disk = [t \in Tasks |-> NoFolder]
    /\ proxies \in ProxyLists
    /\ current_proxy_index = 0
    /\ last_real_download_url = None
    /\ use_chrome \in BOOLEAN
    /\ pc = "idle"
    /\ task = None
    /\ caller = "process_game"
    /\ runs = 0
    /\ result = "none"
    /\ srv = [k |-> "PK", size |-> 0]
    /\ expected_size = 0
    /\ df = DfIdle
    /\ cd = CdIdle
    /\ obs = ObsIdle
    /\ gp = GpIdle
    /\ mon = MonIdle
    /\ cw = CwIdle
    /\ default_download_dir = NoDownloads

SpecStated == InitStated /\ [][Next]_vars

\* C30: when the page states a size, a run of process_game that has transferred
\* the file by the browser strategy or by the HTTP strategy does not succeed with
\* a file smaller than 95% of that size, even one that begins with PK.
C30_SmallFileRejected ==
    (/\ pc = "done" /\ result = "ok" /\ caller = "process_game"
     /\ expected_size > 0
     /\ (obs.chrome_result = "ok" \/ obs.written))
        => st_size(disk[task].apk) * 100 >= expected_size * 95


\* a catalogue of packages of half a KiB, whose pages state no size
TinySize == 512

InitTiny ==
    /\ games = [t \in Tasks |-> [downloaded |-> FALSE, size |-> TinySize, exp |-> 0]]
    /\ disk = [t \in Tasks |-> NoFolder]
    /\ proxies \in ProxyLists
    /\ current_proxy_index = 0
    /\ last_real_download_url = None
    /\ use_chrome \in BOOLEAN
    /\ pc = "idle"
    /\ task = None
    /\ caller = "process_game"
    /\ runs = 0
    /\ result = "none"
    /\ srv = [k |-> "PK", size |-> 0]
    /\ expected_size = 0
    /\ df = DfIdle
    /\ cd = CdIdle
    /\ obs = ObsIdle
    /\ gp = GpIdle
    /\ mon = MonIdle
    /\ cw = CwIdle
    /\ default_download_dir = NoDownloads

SpecTiny == InitTiny /\ [][Next]_vars

\* C31: a downloaded file smaller than 1 KiB that is otherwise complete is
\* accepted exactly when it begins with PK, by the check that ends the HTTP
\* strategy and by the check that ends the browser strategy alike.
C31_TinyFileJudgedByHeader ==
    [][/\ (/\ pc = "df_validate" /\ pc' = "done" /\ result' # "interrupted"
           /\ disk[task].apk.exists /\ st_size(disk[task].apk) < KiB
           /\ (df.total_size > 0 => st_size(disk[task].apk) >= df.total_size))
          => (result' = "ok" <=> FileHeader(disk[task].apk) = "PK")
       /\ (/\ pc = "chrome_final" /\ pc' # "chrome_final" /\ result' # "interrupted"
           /\ ~has_crdownload_files(disk[task]) /\ cd.fresh = "capk"
           /\ st_size(disk[task].capk) < KiB)
          => (obs'.chrome_result = "ok" <=> FileHeader(disk[task].capk) = "PK")]_vars


\* C32: the first HTTP attempt of every task goes out on the direct connection,
\* whatever the number of tasks and probe requests made before; a configured
\* proxy carries a request only after the direct attempt has failed.
C32_FirstAttemptDirect ==
    [][(/\ pc = "df_begin" /\ caller = "process_game"
        /\ obs.http_calls = 0 /\ pc' = "df_loop")
       => df'.proxy = Direct]_vars


\* C33: however the progress callbacks and the passes of the waiting loop fall,
\* _download_with_chrome returns True only if its last check, made after
\* completion was flagged, finds no .crdownload marker in the task's folder nor
\* in the default download directory, and the file it has moved to save_path
\* begins with PK.
C33_SuccessOnlyAfterFinalCheck ==
    [][(obs.chrome_result # "ok" /\ obs'.chrome_result = "ok")
       => /\ pc = "chrome_final"
          /\ ~disk[task].crd.exists /\ ~default_download_dir.crd
          /\ disk'[task].apk.exists /\ FileHeader(disk'[task].apk) = "PK"]_vars

C33_Witness ==
    /\ pc = "done" /\ result = "ok" /\ obs.chrome_result = "ok"
    /\ FileHeader(disk[task].apk) = "PK"
    /\ default_download_dir # NoDownloads


\* C34: _download_file returns True only with a file at save_path that is at
\* least 1 KiB long, begins with PK and is not smaller than the Content-Length
\* the origin reported; and when its last check returns False for a file that is
\* below 1 KiB or does not begin with PK, that file has been deleted.
C34_ValidatedOnReturn ==
    [][(pc = "df_validate" /\ pc' = "done" /\ result' # "interrupted")
       => LET f == disk[task].apk
              g == disk'[task].apk
          IN /\ result' = "ok" =>
                  /\ g.exists /\ st_size(g) >= KiB /\ FileHeader(g) = "PK"
                  /\ df.total_size > 0 => st_size(g) >= df.total_size
             /\ (/\ result' = "fail" /\ f.exists
                 /\ ~(df.total_size > 0 /\ st_size(f) < df.total_size)
                 /\ (st_size(f) < KiB \/ FileHeader(f) # "PK"))
                => ~g.exists]_vars

\* C35: a partial package (beginning with PK, smaller than the task's package)
\* that an earlier run left at the destination never makes the run that starts
\* next for the task record it as downloaded without a transfer, whether or not
\* the page states a size.
PartialOnDisk(t) ==
    /\ ~games[t].downloaded /\ games[t].size > 0
    /\ disk[t].apk.exists /\ FileHeader(disk[t].apk) = "PK"
    /\ st_size(disk[t].apk) < games[t].size

C35_PartialNeverRecorded ==
    [][\A t \in Tasks :
         (pc = "idle" /\ task' = t /\ runs' = runs + 1 /\ PartialOnDisk(t))
         => ~(pc' = "done" /\ games'[t].downloaded)]_vars

\* C36: a row of the manifest becomes "downloaded" only in a step that ends
\* process_game for that task with success; a run that returns failure leaves the
\* row unmarked.
C36_MarkedOnlyOnSuccess ==
    [][\A t \in Tasks :
         (~games[t].downloaded /\ games'[t].downloaded)
         => (task' = t /\ pc' = "done" /\ result' = "ok")]_vars

\* C37: a step that ends process_game with failure after a strategy was tried
\* leaves the task's folder absent or holding an .apk that begins with PK, and
\* what _cleanup_folder_on_failure deletes in that step does not begin with PK.
C37_FailureLeavesNoDebris ==
    [][(/\ caller = "process_game" /\ pc \notin {"idle", "done"}
        /\ pc' = "done" /\ result' = "fail")
       => (/\ ~disk'[task].exists \/ HasValidApk(disk'[task])
           /\ \A r \in obs'.deleted \ obs.deleted :
                 r.why = "cleanup" => r.hdr # "PK")]_vars

\* C38: while this attempt's downloadWillBegin has not come, every progress
\* event the handler is called with is another download's; no step taken then
\* sets download_completed or moves last_progress_time.
C38_ForeignEventsIgnored ==
    [][(cw.state = "begin" /\ ~cw.download_guid /\ cw'.state = "begin")
       => (/\ cw'.download_completed = cw.download_completed
           /\ cw'.last_progress_time = cw.last_progress_time)]_vars
====
